---- MODULE Spec2Model ----
(***************************************************************************)
(* FavBox bookmark synchronisation: the CRDT bookmark document             *)
(* (crdt/BookmarkDocument.js), replicated on two devices and reconciled    *)
(* by the document merge, and the server's operation log                   *)
(* (crdt_operations).                                                      *)
(*                                                                         *)
(* A document is a tree of maps.  Every key of a map is a register that    *)
(* remembers the value last written and the logical timestamp (counter,    *)
(* actor) of the change that wrote it.  Assigning an object literal to a   *)
(* key creates a new object, identified by the timestamp of the change     *)
(* that created it.  All writes of one change carry the change's           *)
(* timestamp.                                                              *)
(***************************************************************************)
EXTENDS Integers, Sequences, FiniteSets, TLC

\* ------------------------------------------------------------------------
\* Bounds and input sets
\* ------------------------------------------------------------------------

\* Number of changes the two devices make altogether.
MaxChanges == 3

\* Changes other devices leave on the server for the device to catch up on.
MaxServerChanges == 3

\* Operations the account's devices get accepted while connections come and go.
MaxOps == 2

\* Connections the devices of the account open over the run.
MaxListeners == 3

\* The bound on the outbound queue of one device.
QueueBound == 2

\* Reconnect/catch-up notifications the model counts per device.
MaxSignals == 2

\* Calls of deleteBookmark (each sets one timeout) over the run.
MaxTimeouts == 3

\* Attempts to import the Automerge module over the run.
MaxAttempts == 3

\* Calls of subscribeToUser.
MaxSubscriptions == 3

\* Times the device applies one change before the model stops counting.
MaxApplied == 2

\* Sockets and reconnect timers the client has pending at one time.
MaxPending == 1

\* this.maxReconnectAttempts = 5
maxReconnectAttempts == 5

\* this.reconnectDelay = 1000 (ms)
reconnectDelay == 1000

\* The longest backoff delay (ms).
MaxDelay == 30000

\* The wait after the attempts are used up: 5 * 60 * 1000 ms.
LongDelay == 300000

\* Largest sequence number a device submits to the operation log.
MaxSeq == 3

\* The operation_data values devices submit.
Payloads == {"p1", "p2", "p3"}

\* Accepted operations after which a snapshot is due (config.crdt.snapshotInterval,
\* 1000 in the deployment).
SnapshotInterval == 1

\* Snapshots retained per account (config.crdt.maxSnapshotsPerUser, 10 in the
\* deployment).
MaxSnapshotsPerUser == 1

\* The devices; a device id is the actor id of its changes.
Replicas == {1, 2}

\* Keys of d.bookmarks.  "b2" occurs only as a value written to a field.
BookmarkIds == {"b1"}

TagNames == {"vue", "js"}

\* Bookmarks handed to addBookmark.
NewBookmarks ==
  { [id |-> i, title |-> "X", notes |-> "", tags |-> t] :
      i \in BookmarkIds, t \in {<< >>, <<"vue">>} }

Elems(list) == { list[n] : n \in 1..Len(list) }

\* The `changes` objects handed to updateBookmark.
ChangeSets ==
  { [title |-> "Y"], [notes |-> "keep"], [tags |-> <<"vue">>],
    [tags |-> <<"js">>], [id |-> "b2"], [deleted |-> FALSE] }

\* ------------------------------------------------------------------------
\* Logical timestamps
\* ------------------------------------------------------------------------

\* The timestamp no change carries: marks an absent map entry.
NoStamp == <<0, 0>>

\* deletedAt: null
NoTime == 0

\* (counter, actor) order: s is later than t.
Later(s, t) == s[1] > t[1] \/ (s[1] = t[1] /\ s[2] > t[2])

Reg(v, st) == [v |-> v, ts |-> st]

\* ------------------------------------------------------------------------
\* The document (initFavboxDocument)
\* ------------------------------------------------------------------------

NoEntry == [obj |-> NoStamp]

Present(e) == e.obj # NoStamp

EmptyDocument ==
  [ bookmarks        |-> [i \in BookmarkIds |-> NoEntry],
    tags             |-> [t \in TagNames |-> NoEntry],
    deletedBookmarks |-> [i \in BookmarkIds |-> NoEntry] ]

BookmarkFields ==
  {"id", "title", "notes", "tags", "folderId", "folderPath", "deleted", "deletedAt", "updatedAt"}

\* d.tags[tag] = { count: 1 }  or  d.tags[tag].count += 1
IncTag(tags, tag, st) ==
  IF ~Present(tags[tag])
    THEN [tags EXCEPT ![tag] = [obj |-> st, count |-> Reg(1, st)]]
    ELSE [tags EXCEPT ![tag].count = Reg(@.v + 1, st)]

RECURSIVE IncTags(_, _, _)
IncTags(tags, list, st) ==
  IF list = << >> THEN tags
  ELSE IncTags(IncTag(tags, Head(list), st), Tail(list), st)

\* Mutant of DecTag: the decrement without the count > 0 guard.
DecTagUnguarded(tags, tag, st) ==
  IF Present(tags[tag])
    THEN [tags EXCEPT ![tag].count = Reg(@.v - 1, st)]
    ELSE tags

\* if (d.tags[tag] && d.tags[tag].count > 0) d.tags[tag].count -= 1
DecTag(tags, tag, st) ==
  IF Present(tags[tag]) /\ tags[tag].count.v > 0
    THEN [tags EXCEPT ![tag].count = Reg(@.v - 1, st)]
    ELSE tags

RECURSIVE DecTags(_, _, _)
DecTags(tags, list, st) ==
  IF list = << >> THEN tags
  ELSE DecTags(DecTag(tags, Head(list), st), Tail(list), st)

\* addBookmark(doc, bookmark), run as the change stamped st at wall-clock time t.
AddBookmark(d, bookmark, st, t) ==
  [ d EXCEPT
      !.bookmarks[bookmark.id] =
        [ obj |-> st,
          f   |-> [ id        |-> Reg(bookmark.id, st),
                    title     |-> Reg(bookmark.title, st),
                    notes     |-> Reg(bookmark.notes, st),
                    tags      |-> Reg(bookmark.tags, st),
                    folderId   |-> Reg("root", st),
                    folderPath |-> Reg("/", st),
                    deleted   |-> Reg(FALSE, st),
                    deletedAt |-> Reg(NoTime, st),
                    updatedAt |-> Reg(t, st) ] ],
      !.tags = IncTags(@, bookmark.tags, st) ]

\* Mutant of Assign: the value is replaced but the register keeps the timestamp
\* of the write it replaces.
AssignKeepStamp(f, changes, st) ==
  [ k \in DOMAIN f |-> IF k \in DOMAIN changes THEN Reg(changes[k], f[k].ts) ELSE f[k] ]

\* Object.keys(changes).forEach((key) => { bookmark[key] = changes[key]; })
Assign(f, changes, st) ==
  [ k \in DOMAIN f |-> IF k \in DOMAIN changes THEN Reg(changes[k], st) ELSE f[k] ]

\* Mutant of updateBookmark: every update also clears the deleted flag.
UpdateBookmarkRevive(d, bookmarkId, changes, st, t) ==
  IF ~Present(d.bookmarks[bookmarkId]) THEN d
  ELSE
    LET bookmark == d.bookmarks[bookmarkId]
        hasTags  == "tags" \in DOMAIN changes
        dec      == IF hasTags THEN DecTags(d.tags, bookmark.f.tags.v, st) ELSE d.tags
        assigned == Assign(bookmark.f, changes, st)
        inc      == IF hasTags THEN IncTags(dec, changes.tags, st) ELSE dec
    IN [ d EXCEPT
           !.bookmarks[bookmarkId].f = [assigned EXCEPT !.updatedAt = Reg(t, st),
                                                        !.deleted = Reg(FALSE, st)],
           !.tags = inc ]

\* Mutant of updateBookmark: the bookmark is mutated in place, outside a change, so
\* its writes carry no timestamp of their own.
UpdateBookmarkInPlace(d, bookmarkId, changes, st, t) ==
  IF ~Present(d.bookmarks[bookmarkId]) THEN d
  ELSE
    LET f == d.bookmarks[bookmarkId].f
    IN [ d EXCEPT !.bookmarks[bookmarkId].f =
           [ k \in DOMAIN f |->
               IF k \in DOMAIN changes THEN Reg(changes[k], f[k].ts)
               ELSE IF k = "updatedAt" THEN Reg(t, f[k].ts)
               ELSE f[k] ] ]

\* updateBookmark(doc, bookmarkId, changes)
UpdateBookmark(d, bookmarkId, changes, st, t) ==
  IF ~Present(d.bookmarks[bookmarkId]) THEN d
  ELSE
    LET bookmark == d.bookmarks[bookmarkId]
        hasTags  == "tags" \in DOMAIN changes
        dec      == IF hasTags THEN DecTags(d.tags, bookmark.f.tags.v, st) ELSE d.tags
        assigned == Assign(bookmark.f, changes, st)
        inc      == IF hasTags THEN IncTags(dec, changes.tags, st) ELSE dec
    IN [ d EXCEPT
           !.bookmarks[bookmarkId].f = [assigned EXCEPT !.updatedAt = Reg(t, st)],
           !.tags = inc ]

\* { ...bookmark }
Copy(f) == [ k \in DOMAIN f |-> f[k].v ]

\* Mutant of deleteBookmark: a hard delete that moves the record to
\* deletedBookmarks and erases it from bookmarks.
DeleteBookmarkErase(d, bookmarkId, st, t) ==
  IF ~Present(d.bookmarks[bookmarkId]) THEN d
  ELSE
    LET bookmark == d.bookmarks[bookmarkId]
        marked   == [bookmark.f EXCEPT !.deleted = Reg(TRUE, st),
                                       !.deletedAt = Reg(t, st)]
    IN [ d EXCEPT
           !.tags = DecTags(@, bookmark.f.tags.v, st),
           !.bookmarks[bookmarkId] = NoEntry,
           !.deletedBookmarks[bookmarkId] = [obj |-> st, rec |-> Copy(marked)] ]

\* deleteBookmark(doc, bookmarkId)
DeleteBookmark(d, bookmarkId, st, t) ==
  IF ~Present(d.bookmarks[bookmarkId]) THEN d
  ELSE
    LET bookmark == d.bookmarks[bookmarkId]
        marked   == [bookmark.f EXCEPT !.deleted = Reg(TRUE, st),
                                       !.deletedAt = Reg(t, st)]
    IN [ d EXCEPT
           !.tags = DecTags(@, bookmark.f.tags.v, st),
           !.bookmarks[bookmarkId].f = marked,
           !.deletedBookmarks[bookmarkId] = [obj |-> st, rec |-> Copy(marked)] ]

\* Folders a bookmark is moved to: (targetFolderId, targetFolderPath).
Targets == { <<"f1", "/f1">> }

\* moveBookmark without its "not found" return: the bookmark is created.
MoveBookmarkCreate(d, bookmarkId, targetFolderId, targetFolderPath, st, t) ==
  [ d EXCEPT
      !.bookmarks[bookmarkId] =
        IF Present(@)
          THEN [@ EXCEPT !.f.folderId = Reg(targetFolderId, st),
                         !.f.folderPath = Reg(targetFolderPath, st),
                         !.f.updatedAt = Reg(t, st)]
          ELSE [obj |-> st, f |-> [k \in {"folderId", "folderPath", "updatedAt"} |->
                                     Reg(IF k = "folderId" THEN targetFolderId
                                         ELSE IF k = "folderPath" THEN targetFolderPath
                                         ELSE t, st)]] ]

\* moveBookmark(doc, bookmarkId, targetFolderId, targetFolderPath)
MoveBookmark(d, bookmarkId, targetFolderId, targetFolderPath, st, t) ==
  IF ~Present(d.bookmarks[bookmarkId]) THEN d
  ELSE [ d EXCEPT
           !.bookmarks[bookmarkId].f.folderId = Reg(targetFolderId, st),
           !.bookmarks[bookmarkId].f.folderPath = Reg(targetFolderPath, st),
           !.bookmarks[bookmarkId].f.updatedAt = Reg(t, st) ]

\* Keys the folders map of a document may hold, and the titles folders are given.
FolderIds == {"f1"}

FolderTitles == {"A", "B"}

\* d.folders of the document initFavboxDocument creates.
NoFolders == [g \in FolderIds |-> NoEntry]

\* addFolder(doc, folder), on the folders of the document.
AddFolder(fs, folder, st, t) ==
  [ fs EXCEPT
      ![folder.id] =
        [ obj |-> st,
          f   |-> [ id        |-> Reg(folder.id, st),
                    browserId |-> Reg("", st),
                    title     |-> Reg(folder.title, st),
                    parentId  |-> Reg("root", st),
                    path      |-> Reg(<<"/", folder.title>>, st),
                    order     |-> Reg(0, st),
                    createdAt |-> Reg(t, st),
                    updatedAt |-> Reg(t, st),
                    deleted   |-> Reg(FALSE, st) ] ] ]

\* renameFolder(doc, folderId, newTitle), on the folders of the document.
RenameFolder(fs, folderId, newTitle, st, t) ==
  IF folderId \notin DOMAIN fs \/ ~Present(fs[folderId]) THEN fs
  ELSE [ fs EXCEPT ![folderId].f.title = Reg(newTitle, st),
                   ![folderId].f.updatedAt = Reg(t, st) ]

\* Keys the bookmarks map of a document may hold.
EditIds == {"b1", "b2"}

\* Document d, with the keys of EditIds it does not hold yet absent.
Extend(d) ==
  [ d EXCEPT
      !.bookmarks = [i \in EditIds |-> IF i \in DOMAIN @ THEN @[i] ELSE NoEntry],
      !.deletedBookmarks = [i \in EditIds |-> IF i \in DOMAIN @ THEN @[i] ELSE NoEntry] ]

\* Calls of addBookmark, updateBookmark, deleteBookmark and moveBookmark.
Edits ==
  { [op |-> "add", id |-> i, bookmark |-> [id |-> i, title |-> "X", notes |-> "", tags |-> t]] :
      i \in EditIds, t \in {<< >>, <<"vue">>} }
  \cup { [op |-> "update", id |-> i, changes |-> c] : i \in EditIds, c \in ChangeSets }
  \cup { [op |-> "delete", id |-> i] : i \in EditIds }
  \cup { [op |-> "move", id |-> i, target |-> g] : i \in EditIds, g \in Targets }

ApplyEdit(d, e, st, t) ==
  CASE e.op = "add"    -> AddBookmark(d, e.bookmark, st, t)
    [] e.op = "update" -> UpdateBookmark(d, e.id, e.changes, st, t)
    [] e.op = "delete" -> DeleteBookmark(d, e.id, st, t)
    [] e.op = "move"   -> MoveBookmark(d, e.id, e.target[1], e.target[2], st, t)

\* The fields of its bookmark a call is made to change (updatedAt, the
\* modification time every call refreshes, aside).
EditFields(e) ==
  CASE e.op = "add"    -> BookmarkFields
    [] e.op = "update" -> DOMAIN e.changes
    [] e.op = "delete" -> {"deleted", "deletedAt"}
    [] e.op = "move"   -> {"folderId", "folderPath"}

Independent(a, b) == a.id # b.id \/ EditFields(a) \cap EditFields(b) = {}

\* ------------------------------------------------------------------------
\* Merge of two documents that share the base document
\* ------------------------------------------------------------------------

\* One register: the write with the later timestamp wins.
MergeReg(a, b) == IF Later(b.ts, a.ts) THEN b ELSE a

\* One key holding a bookmark object.
MergeBookmark(a, b) ==
  IF a.obj = b.obj
    THEN IF Present(a)
           THEN [a EXCEPT !.f = [k \in DOMAIN a.f |-> MergeReg(a.f[k], b.f[k])]]
           ELSE a
    ELSE IF Later(b.obj, a.obj) THEN b ELSE a

\* One key holding a tag object { count }.
MergeTag(a, b) ==
  IF a.obj = b.obj
    THEN IF Present(a) THEN [a EXCEPT !.count = MergeReg(a.count, b.count)] ELSE a
    ELSE IF Later(b.obj, a.obj) THEN b ELSE a

\* One key holding a deletion record (never written after it is created).
MergeDeleted(a, b) == IF Later(b.obj, a.obj) THEN b ELSE a

\* merge(doc1, doc2), on the folders of the two documents.
MergeFolders(f1, f2) == [g \in FolderIds |-> MergeBookmark(f1[g], f2[g])]

\* merge(doc1, doc2)
Merge(d1, d2) ==
  [ bookmarks        |-> [i \in BookmarkIds |-> MergeBookmark(d1.bookmarks[i], d2.bookmarks[i])],
    tags             |-> [t \in TagNames |-> MergeTag(d1.tags[t], d2.tags[t])],
    deletedBookmarks |-> [i \in BookmarkIds |->
                            MergeDeleted(d1.deletedBookmarks[i], d2.deletedBookmarks[i])] ]

\* ------------------------------------------------------------------------
\* What a reader of the document sees (no timestamps)
\* ------------------------------------------------------------------------

ViewBookmark(e) == IF Present(e) THEN [present |-> TRUE, rec |-> Copy(e.f)]
                   ELSE [present |-> FALSE]

ViewTag(e) == IF Present(e) THEN e.count.v ELSE 0

ViewDeleted(e) == IF Present(e) THEN [present |-> TRUE, rec |-> e.rec]
                  ELSE [present |-> FALSE]

View(d) ==
  [ bookmarks        |-> [i \in DOMAIN d.bookmarks |-> ViewBookmark(d.bookmarks[i])],
    tags             |-> [t \in TagNames |-> ViewTag(d.tags[t])],
    deletedBookmarks |-> [i \in DOMAIN d.deletedBookmarks |->
                            ViewDeleted(d.deletedBookmarks[i])] ]

\* ------------------------------------------------------------------------
\* State
\* ------------------------------------------------------------------------

VARIABLES
  folders,   \* folders[r]: d.folders of the document of device r
  doc,      \* doc[r]: the document of device r
  seen,     \* seen[r]: timestamps of the changes device r's document incorporates
  writes,   \* history: writes[k] holds every write any change made to field k of a bookmark
  tagOps,   \* history: per change that wrote a bookmark's tags, the elements it added and removed
  now,      \* the reading Date.now() gives next; each reading is later than the last
  log,      \* the rows of crdt_operations of one account, in insertion order
  result,   \* the operation last submitted to the log and the outcome of its append
  cursor,   \* cursor[a]: sync_state.last_sync_operation_id of device a (0 when none)
  snapshots, \* the rows of crdt_snapshots of the account, in insertion order
  token,     \* BackendClient.token is set
  ws,        \* BackendClient.ws: "null", or the readyState of the socket it refers to
  detached,  \* sockets BackendClient.ws no longer refers to whose close event is to come
  orphans,   \* how many of the detached sockets are still connecting, and open
  wsReconnectAttempts,
  reconnectTimers, \* pending setTimeout callbacks of _scheduleReconnect (backoff delay)
  resetTimers,     \* pending setTimeout callbacks of _scheduleReconnect (5 minutes)
  delay,           \* the delay (ms) of the timeout _scheduleReconnect set last (0: none yet)
  lastEvent,       \* the event _emit dispatched last
  caughtUp,        \* an incrementalSync has completed on the open connection
  live,            \* the open connection has dispatched a pushed change
  serverTimestamp, \* the server's position: changes 1..serverTimestamp exist on it
  lastSync,        \* chrome.storage.local[LAST_SYNC] (0 when absent)
  inflight,        \* the last_sync_at of the incremental request in flight, or NoRequest
  batch,           \* the changes incrementalSync returned that are still to be applied
  applied,         \* applied[c]: how many times the device has applied server change c
  connected,  \* the devices of the account with a connection to the server
  subscribed, \* redisSub is subscribed to the channel user:{id} of the account
  listeners,  \* the 'message' listeners subscribeToUser has put on redisSub
  accepted,   \* accepted[o]: the device operation o was accepted from
  channel,    \* the messages redisSub has received and not yet dispatched
  wire,       \* wire[d]: the messages sent on the connection of d and not yet handled
  delivered,  \* delivered[d]: the operations the client of d has dispatched
  owed,       \* owed[d]: the operations accepted since d connected
  queue,      \* queue[d]: the operations the propagator buffers for d
  notifyOnly, \* notifyOnly[d]: the propagator has stopped buffering for d
  signals,    \* signals[d]: reconnect/catch-up notifications sent to d
  pendingDeletions, \* the Map of useBookmarkActions: id -> the timeoutId of its entry
  timeouts,         \* the setTimeout callbacks of deleteBookmark still to fire
  nextTimeout,      \* the timeoutId the next setTimeout returns
  removals,         \* the timeout callbacks that are inside deleteBookmarkImmediately
  inBrowser,        \* inBrowser[i]: the browser holds bookmark i
  inBackend,        \* inBackend[i]: the backend holds bookmark i
  restored,         \* restored[i]: the last undoDelete(i) returned the bookmark
  undone,           \* undone[i]: that undoDelete ran before the timeout of the entry fired
  wasmInitialized,
  initPromise,      \* 0 for null, else the number of the attempt the promise belongs to
  attempts,         \* attempts[k]: the state of the import() of attempt k
  callers,          \* callers[c]: what caller c of initAutomerge is doing
  redisChannels,    \* the users whose channel redisSub is subscribed to
  redisListeners,   \* the 'message' listeners of redisSub, in the order they were added
  current,          \* the listeners whose subscription has not been cancelled since
  invoked,          \* invoked[i]: how often the message published last invoked callback i
  lastPublished     \* the user the last message was published to ("none" before)

docVars == <<doc, folders, seen, writes, tagOps, now>>

logVars == <<log, result, cursor, snapshots>>

\* Everything outside the replicated documents.
clientVars ==
  <<token, ws, detached, orphans, wsReconnectAttempts, reconnectTimers, resetTimers, delay, lastEvent,
    caughtUp, live, serverTimestamp, lastSync, inflight, batch, applied>>

fanVars == <<connected, subscribed, listeners, accepted, channel, wire, delivered, owed>>

queueVars == <<queue, notifyOnly, signals>>

propagatorVars == <<fanVars, queueVars>>

undoVars ==
  <<pendingDeletions, timeouts, nextTimeout, removals, inBrowser, inBackend, restored, undone>>

initVars == <<wasmInitialized, initPromise, attempts, callers>>

redisVars == <<redisChannels, redisListeners, current, invoked, lastPublished>>

localVars == <<undoVars, initVars, redisVars>>

syncVars == <<logVars, clientVars, propagatorVars, localVars>>

vars ==
  <<doc, folders, seen, writes, tagOps, now, log, result, cursor, snapshots, token, ws, detached, orphans,
    wsReconnectAttempts, reconnectTimers, resetTimers, delay, lastEvent, caughtUp, live, serverTimestamp,
    lastSync, inflight, batch, applied, connected, subscribed, listeners, accepted, channel,
    wire, delivered, owed, queue, notifyOnly, signals, pendingDeletions, timeouts, nextTimeout,
    removals, inBrowser, inBackend, restored, undone, wasmInitialized, initPromise, attempts,
    callers, redisChannels, redisListeners, current, invoked, lastPublished>>

\* Counter of the next change of device r: one more than the largest it has seen.
RECURSIVE MaxCounter(_)
MaxCounter(S) ==
  IF S = {} THEN 0
  ELSE LET s == CHOOSE x \in S : TRUE
           m == MaxCounter(S \ {s})
       IN IF s[1] > m THEN s[1] ELSE m

NextStamp(r) == <<MaxCounter(seen[r]) + 1, r>>

AllSeen == UNION { seen[r] : r \in Replicas }

\* The writes to field k of bookmark objects that the change stamped st left in
\* document d.
WritesOf(d, st, k) ==
  { [st |-> st, id |-> i, obj |-> d.bookmarks[i].obj, v |-> d.bookmarks[i].f[k].v] :
      i \in { j \in BookmarkIds : /\ Present(d.bookmarks[j])
                                  /\ d.bookmarks[j].f[k].ts = st } }

\* What the change stamped st, which turned document d0 into d, did to the tag
\* lists it wrote: the elements it added to and removed from the list it saw.
TagOpsOf(d0, d, st) ==
  { [ st      |-> st,
      id      |-> i,
      obj     |-> d.bookmarks[i].obj,
      added   |-> Elems(d.bookmarks[i].f.tags.v) \
                    (IF d0.bookmarks[i].obj = d.bookmarks[i].obj
                       THEN Elems(d0.bookmarks[i].f.tags.v) ELSE {}),
      removed |-> (IF d0.bookmarks[i].obj = d.bookmarks[i].obj
                     THEN Elems(d0.bookmarks[i].f.tags.v) ELSE {}) \
                    Elems(d.bookmarks[i].f.tags.v) ] :
      i \in { j \in BookmarkIds : /\ Present(d.bookmarks[j])
                                  /\ d.bookmarks[j].f.tags.ts = st } }

\* ------------------------------------------------------------------------
\* The operation log (crdt_operations)
\* ------------------------------------------------------------------------

\* The operations a device may submit.
Operations == [actor : Replicas, seq : 1..MaxSeq, data : Payloads]

\* operation_hash: the SHA-256 digest of operation_data.
Hash(data) == <<"sha256", data>>

NoResult == [op |-> [actor |-> 0, seq |-> 0, data |-> "none"], outcome |-> "none", ok |-> TRUE]

\* Mutant of HashPresent: operation_hash without its UNIQUE constraint.
HashPresentNever(l, h) == FALSE

\* operation_hash VARCHAR(64) UNIQUE NOT NULL: a row with this hash exists.
HashPresent(l, h) == \E n \in 1..Len(l) : l[n].operation_hash = h

\* The last sequence number accepted from a device (0 when none).
RECURSIVE LastSeq(_, _)
LastSeq(l, actor) ==
  IF l = << >> THEN 0
  ELSE IF l[Len(l)].device_id = actor THEN l[Len(l)].sequence_number
  ELSE LastSeq(SubSeq(l, 1, Len(l) - 1), actor)

\* Mutant of Row: the device's sequence number is stored as the row's id.
RowSeqAsId(l, op) ==
  [ id              |-> op.seq,
    device_id       |-> op.actor,
    operation_data  |-> op.data,
    operation_hash  |-> Hash(op.data),
    sequence_number |-> op.seq ]

\* A new row; id is the BIGSERIAL key, one more than the last row's.
Row(l, op) ==
  [ id              |-> IF l = << >> THEN 1 ELSE l[Len(l)].id + 1,
    device_id       |-> op.actor,
    operation_data  |-> op.data,
    operation_hash  |-> Hash(op.data),
    sequence_number |-> op.seq ]

\* Mutant of AppendOperation: a sequence gap is healed silently.
AppendOperationHeal(l, op) ==
  IF HashPresent(l, Hash(op.data))
    THEN [log |-> l, outcome |-> "Duplicate", ok |-> TRUE]
    ELSE [log |-> Append(l, Row(l, op)), outcome |-> "Accepted", ok |-> TRUE]

\* append(operation) -> Accepted | Duplicate | resync_required
AppendOperation(l, op) ==
  IF HashPresent(l, Hash(op.data))
    THEN [log |-> l, outcome |-> "Duplicate", ok |-> TRUE]
  ELSE IF op.seq > LastSeq(l, op.actor) + 1
    THEN [log |-> l, outcome |-> "resync_required", ok |-> FALSE]
  ELSE [log |-> Append(l, Row(l, op)), outcome |-> "Accepted", ok |-> TRUE]

\* A payload that fails structural validation.
Malformed == "bad"

\* What a device may send to the log: operations, well-formed or not.
Submissions == Operations \cup [actor : Replicas, seq : 1..MaxSeq, data : {Malformed}]

\* Structural validation of the payload.
WellFormed(data) == data \in Payloads

\* The boundary of the log without validation.
SubmitUnchecked(l, op) == AppendOperation(l, op)

\* The boundary of the log: a malformed operation is rejected before append.
Submit(l, op) ==
  IF ~WellFormed(op.data)
    THEN [log |-> l, outcome |-> "MalformedOperation", ok |-> FALSE]
    ELSE AppendOperation(l, op)

\* operationsSince(lastKnownOperationId): the rows with a greater id, in log order.
OperationsSince(l, c) == SelectSeq(l, LAMBDA row : row.id > c)

\* The change each operation_data carries (an Automerge change of the document).
OperationEdit(data) ==
  CASE data = "p1" -> [op |-> "add", id |-> "b1",
                       bookmark |-> [id |-> "b1", title |-> "X", notes |-> "",
                                     tags |-> <<"vue">>]]
    [] data = "p2" -> [op |-> "update", id |-> "b1", changes |-> [tags |-> <<"js">>]]
    [] data = "p3" -> [op |-> "delete", id |-> "b1"]

\* apply(document, operation): the operation's change, with the logical timestamp
\* and the clock reading it was made with.
ApplyOperation(d, row) ==
  ApplyEdit(d, OperationEdit(row.operation_data),
            <<row.sequence_number, row.device_id>>, row.sequence_number)

\* materialize(base, operations): the operations folded onto base in order.
RECURSIVE Materialize(_, _)
Materialize(base, ops) ==
  IF ops = << >> THEN base
  ELSE Materialize(ApplyOperation(base, Head(ops)), Tail(ops))

\* Before the first snapshot: the empty document, incorporating no operation.
NoSnapshot == [id |-> 0, last_operation_id |-> 0, snapshot_data |-> EmptyDocument]

LatestSnapshot(snaps) == IF snaps = << >> THEN NoSnapshot ELSE snaps[Len(snaps)]

\* Mutant of SnapshotRow: last_operation_id is the id before the last operation
\* the snapshot incorporates.
SnapshotRowStale(snaps, l, data) ==
  [ id                |-> LatestSnapshot(snaps).id + 1,
    last_operation_id |-> l[Len(l)].id - 1,
    snapshot_data     |-> data,
    bookmark_count    |-> Cardinality({ i \in DOMAIN data.bookmarks :
                                          Present(data.bookmarks[i]) }) ]

\* A new row of crdt_snapshots: the document materialized over log l.
SnapshotRow(snaps, l, data) ==
  [ id                |-> LatestSnapshot(snaps).id + 1,
    last_operation_id |-> l[Len(l)].id,
    snapshot_data     |-> data,
    bookmark_count    |-> Cardinality({ i \in DOMAIN data.bookmarks :
                                          Present(data.bookmarks[i]) }) ]

\* The ids of the MaxSnapshotsPerUser most recent snapshots.
Recent(snaps) ==
  { snaps[n].id : n \in { m \in 1..Len(snaps) : m > Len(snaps) - MaxSnapshotsPerUser } }

\* The ids of the snapshots a device with a cursor still needs: for each such
\* device, the nearest snapshot above its cursor.
Needed(snaps, cur) ==
  { snaps[n].id : n \in { m \in 1..Len(snaps) :
      \E a \in Replicas :
        /\ cur[a] > 0
        /\ cur[a] < snaps[m].last_operation_id
        /\ \A k \in 1..Len(snaps) :
             snaps[k].last_operation_id > cur[a]
               => snaps[k].last_operation_id >= snaps[m].last_operation_id } }

\* Mutant of Prune: only the cap decides.
PruneToCap(snaps, cur) == SelectSeq(snaps, LAMBDA s : s.id \in Recent(snaps))

\* Retention: the most recent MaxSnapshotsPerUser snapshots and the needed ones stay.
Prune(snaps, cur) ==
  SelectSeq(snaps, LAMBDA s : s.id \in Recent(snaps) \cup Needed(snaps, cur))

\* pendingDeletions holds no entry for the id.
NoTimeout == 0

\* The callers of initAutomerge.
Callers == {1, 2}

\* No incremental request is in flight.
NoRequest == 0 - 1

Init ==
  /\ doc = [r \in Replicas |-> EmptyDocument]
  /\ seen = [r \in Replicas |-> {}]
  /\ writes = [k \in BookmarkFields |-> {}]
  /\ tagOps = {}
  /\ now = 1
  /\ log = << >>
  /\ result = NoResult
  /\ cursor = [a \in Replicas |-> 0]
  /\ snapshots = << >>
  /\ folders = [r \in Replicas |-> NoFolders]
  /\ token = FALSE
  /\ ws = "null"
  /\ detached = 0
  /\ orphans = [connecting |-> 0, open |-> 0]
  /\ wsReconnectAttempts = 0
  /\ reconnectTimers = 0
  /\ resetTimers = 0
  /\ delay = 0
  /\ lastEvent = "none"
  /\ caughtUp = FALSE
  /\ live = FALSE
  /\ serverTimestamp = 0
  /\ lastSync = 0
  /\ inflight = NoRequest
  /\ batch = << >>
  /\ applied = [c \in 1..MaxServerChanges |-> 0]
  /\ connected = {}
  /\ subscribed = FALSE
  /\ listeners = 0
  /\ accepted = << >>
  /\ channel = << >>
  /\ wire = [d \in Replicas |-> << >>]
  /\ delivered = [d \in Replicas |-> {}]
  /\ owed = [d \in Replicas |-> {}]
  /\ queue = [d \in Replicas |-> << >>]
  /\ notifyOnly = [d \in Replicas |-> FALSE]
  /\ signals = [d \in Replicas |-> 0]
  /\ pendingDeletions = [i \in EditIds |-> NoTimeout]
  /\ timeouts = {}
  /\ nextTimeout = 1
  /\ removals = {}
  /\ inBrowser = [i \in EditIds |-> TRUE]
  /\ inBackend = [i \in EditIds |-> TRUE]
  /\ restored = [i \in EditIds |-> FALSE]
  /\ undone = [i \in EditIds |-> FALSE]
  /\ wasmInitialized = FALSE
  /\ initPromise = 0
  /\ attempts = << >>
  /\ callers = [c \in Callers |-> [at |-> "idle", promise |-> 0]]
  /\ redisChannels = {}
  /\ redisListeners = << >>
  /\ current = {}
  /\ invoked = [i \in 1..MaxSubscriptions |-> 0]
  /\ lastPublished = "none"

\* Device r commits the change that turns its document into d.  A callback that
\* returns at "Bookmark not found" writes nothing, and no change is committed.
Commit(r, d, st) ==
  /\ doc' = [doc EXCEPT ![r] = d]
  /\ seen' = [seen EXCEPT ![r] = @ \cup {st}]
  /\ writes' = [k \in BookmarkFields |-> writes[k] \cup WritesOf(d, st, k)]
  /\ tagOps' = tagOps \cup TagOpsOf(doc[r], d, st)
  /\ now' = now + 1
  /\ UNCHANGED <<folders, syncVars>>

DoAddBookmark ==
  \E r \in Replicas, b \in NewBookmarks :
    /\ Cardinality(AllSeen) < MaxChanges
    /\ Commit(r, AddBookmark(doc[r], b, NextStamp(r), now), NextStamp(r))

DoUpdateBookmark ==
  \E r \in Replicas, i \in BookmarkIds, c \in ChangeSets :
    /\ Cardinality(AllSeen) < MaxChanges
    /\ IF Present(doc[r].bookmarks[i])
         THEN Commit(r, UpdateBookmark(doc[r], i, c, NextStamp(r), now), NextStamp(r))
         ELSE UNCHANGED vars

DoDeleteBookmark ==
  \E r \in Replicas, i \in BookmarkIds :
    /\ Cardinality(AllSeen) < MaxChanges
    /\ IF Present(doc[r].bookmarks[i])
         THEN Commit(r, DeleteBookmark(doc[r], i, NextStamp(r), now), NextStamp(r))
         ELSE UNCHANGED vars

DoMoveBookmark ==
  \E r \in Replicas, i \in BookmarkIds, g \in Targets :
    /\ Cardinality(AllSeen) < MaxChanges
    /\ IF Present(doc[r].bookmarks[i])
         THEN Commit(r, MoveBookmark(doc[r], i, g[1], g[2], NextStamp(r), now), NextStamp(r))
         ELSE UNCHANGED vars

\* Device r commits a change that writes the folders of its document only.
CommitFolders(r, fs, st) ==
  /\ folders' = [folders EXCEPT ![r] = fs]
  /\ seen' = [seen EXCEPT ![r] = @ \cup {st}]
  /\ now' = now + 1
  /\ UNCHANGED <<doc, writes, tagOps, syncVars>>

DoAddFolder ==
  \E r \in Replicas, g \in FolderIds, title \in FolderTitles :
    /\ Cardinality(AllSeen) < MaxChanges
    /\ CommitFolders(r, AddFolder(folders[r], [id |-> g, title |-> title], NextStamp(r), now),
                     NextStamp(r))

DoRenameFolder ==
  \E r \in Replicas, g \in FolderIds, title \in FolderTitles :
    /\ Cardinality(AllSeen) < MaxChanges
    /\ IF Present(folders[r][g])
         THEN CommitFolders(r, RenameFolder(folders[r], g, title, NextStamp(r), now),
                            NextStamp(r))
         ELSE UNCHANGED vars

\* Device r merges the document of device s into its own.
DoMerge ==
  \E r \in Replicas, s \in Replicas :
    /\ s # r
    /\ doc' = [doc EXCEPT ![r] = Merge(doc[r], doc[s])]
    /\ folders' = [folders EXCEPT ![r] = MergeFolders(folders[r], folders[s])]
    /\ seen' = [seen EXCEPT ![r] = @ \cup seen[s]]
    /\ UNCHANGED <<writes, tagOps, now, syncVars>>

Next ==
  DoAddBookmark \/ DoUpdateBookmark \/ DoDeleteBookmark \/ DoMoveBookmark \/ DoMerge

Spec == Init /\ [][Next]_vars

\* The operations a device performs on its own document, folders included.
FoldersNext ==
  \/ DoAddBookmark \/ DoUpdateBookmark \/ DoDeleteBookmark \/ DoMoveBookmark
  \/ DoAddFolder \/ DoRenameFolder

FoldersSpec == Init /\ [][FoldersNext]_vars

\* A device submits an operation to the log; an accepted operation advances the
\* sender's cursor.
DoAppend ==
  \E op \in Submissions :
    LET a == Submit(log, op)
    IN /\ log' = a.log
       /\ result' = [op |-> op, outcome |-> a.outcome, ok |-> a.ok]
       /\ cursor' = IF a.outcome = "Accepted"
                      THEN [cursor EXCEPT ![op.actor] = a.log[Len(a.log)].id]
                      ELSE cursor
       /\ UNCHANGED <<snapshots, docVars, clientVars, propagatorVars, localVars>>

\* A snapshot is due: the operations accepted since the latest snapshot are
\* folded onto it.
CreateSnapshot ==
  LET latest == LatestSnapshot(snapshots)
      tail   == OperationsSince(log, latest.last_operation_id)
  IN /\ Len(tail) >= SnapshotInterval
     /\ snapshots' = Append(snapshots,
                            SnapshotRow(snapshots, log, Materialize(latest.snapshot_data, tail)))
     /\ UNCHANGED <<log, result, cursor, docVars, clientVars, propagatorVars, localVars>>

\* The account holds more snapshots than the cap: prune.
PruneSnapshots ==
  /\ Len(snapshots) > MaxSnapshotsPerUser
  /\ snapshots' = Prune(snapshots, cursor)
  /\ UNCHANGED <<log, result, cursor, docVars, clientVars, propagatorVars, localVars>>

LogNext == DoAppend \/ CreateSnapshot \/ PruneSnapshots

LogSpec == Init /\ [][LogNext]_vars

\* ------------------------------------------------------------------------
\* The client (BackendClient): WebSocket connection and incremental sync
\* ------------------------------------------------------------------------

\* data.type of the messages the server pushes.
MessageTypes ==
  {"connected", "bookmark_created", "bookmark_updated", "bookmark_deleted", "ping", "other"}

\* _handleWebSocketMessage: the event a message is turned into ("none": no event).
EventOf(type) ==
  CASE type = "bookmark_created" -> "bookmark:created"
    [] type = "bookmark_updated" -> "bookmark:updated"
    [] type = "bookmark_deleted" -> "bookmark:deleted"
    [] OTHER -> "none"

PushEvents == {"bookmark:created", "bookmark:updated", "bookmark:deleted"}

\* connectWebSocket without the test of the token.
ConnectWebSocketAnyone(tk, w) ==
  IF w = "OPEN" THEN [ws |-> w, dropped |-> 0]
  ELSE [ws |-> "CONNECTING", dropped |-> IF w = "CONNECTING" THEN 1 ELSE 0]

\* connectWebSocket(), run with token tk and this.ws = w: the new this.ws and the
\* number of sockets it stops referring to while they are still connecting.
ConnectWebSocket(tk, w) ==
  IF ~tk THEN [ws |-> w, dropped |-> 0]
  ELSE IF w = "OPEN" THEN [ws |-> w, dropped |-> 0]
  ELSE [ws |-> "CONNECTING", dropped |-> IF w = "CONNECTING" THEN 1 ELSE 0]

\* disconnectWebSocket(), run with this.ws = w: this.ws becomes null; a socket
\* that was not closed yet gets its close event later.
DisconnectWebSocket(w) ==
  [ws |-> "null", dropped |-> IF w \in {"CONNECTING", "OPEN"} THEN 1 ELSE 0]

\* Math.min
Min(a, b) == IF a < b THEN a ELSE b

\* _scheduleReconnect without the limit on the attempts.
ScheduleReconnectNoLimit(n) ==
  [attempts |-> n + 1, reconnect |-> 1, reset |-> 0,
   delay |-> Min(reconnectDelay * 2 ^ n, MaxDelay)]

\* _scheduleReconnect that sets no timeout once the attempts are used up.
ScheduleReconnectGivesUp(n) ==
  IF n >= maxReconnectAttempts
    THEN [attempts |-> n, reconnect |-> 0, reset |-> 0, delay |-> LongDelay]
    ELSE [attempts |-> n + 1, reconnect |-> 1, reset |-> 0,
          delay |-> Min(reconnectDelay * 2 ^ n, MaxDelay)]

\* _scheduleReconnect(), run with wsReconnectAttempts = n.
ScheduleReconnect(n) ==
  IF n >= maxReconnectAttempts
    THEN [attempts |-> n, reconnect |-> 0, reset |-> 1, delay |-> LongDelay]
    ELSE [attempts |-> n + 1, reconnect |-> 1, reset |-> 0,
          delay |-> Min(reconnectDelay * 2 ^ n, MaxDelay)]

syncStateVars == <<serverTimestamp, lastSync, inflight, batch, applied>>

\* login(username, password): the token is stored and connectWebSocket() runs.
Login ==
  /\ ~token
  /\ token' = TRUE
  /\ LET c == ConnectWebSocket(TRUE, ws)
     IN /\ ws' = c.ws /\ detached' = detached + c.dropped
        /\ orphans' = [orphans EXCEPT !.connecting = @ + c.dropped]
  /\ UNCHANGED <<wsReconnectAttempts, reconnectTimers, resetTimers, delay, lastEvent, caughtUp, live,
                 syncStateVars, docVars, logVars, propagatorVars, localVars>>

\* logout(): token and LAST_SYNC are cleared and disconnectWebSocket() runs.
Logout ==
  /\ token
  /\ token' = FALSE
  /\ LET c == DisconnectWebSocket(ws)
     IN /\ detached + c.dropped <= MaxPending
        /\ ws' = c.ws /\ detached' = detached + c.dropped
  /\ UNCHANGED orphans
  /\ lastSync' = 0
  /\ caughtUp' = FALSE
  /\ live' = FALSE
  /\ UNCHANGED <<wsReconnectAttempts, reconnectTimers, resetTimers, delay, lastEvent,
                 serverTimestamp, inflight, batch, applied, docVars, logVars, propagatorVars, localVars>>

\* ws.onopen
OnOpen ==
  /\ ws = "CONNECTING"
  /\ ws' = "OPEN"
  /\ wsReconnectAttempts' = 0
  /\ lastEvent' = "ws:connected"
  /\ caughtUp' = FALSE
  /\ live' = FALSE
  /\ UNCHANGED <<token, detached, orphans, reconnectTimers, resetTimers, delay, syncStateVars,
                 docVars, logVars, propagatorVars, localVars>>

\* ws.onmessage -> _handleWebSocketMessage(data)
OnMessage ==
  \E type \in MessageTypes :
    /\ ws = "OPEN"
    /\ lastEvent' = IF EventOf(type) = "none" THEN lastEvent ELSE EventOf(type)
    /\ live' = (live \/ EventOf(type) \in PushEvents)
    /\ UNCHANGED <<token, ws, detached, orphans, wsReconnectAttempts, reconnectTimers, resetTimers, delay,
                   caughtUp, syncStateVars, docVars, logVars, propagatorVars, localVars>>

\* ws.onclose of the socket this.ws refers to (the transport failed or the server
\* closed it): 'ws:disconnected' is emitted and _scheduleReconnect() runs.
OnClose ==
  /\ ws \in {"CONNECTING", "OPEN"}
  /\ reconnectTimers + resetTimers + 1 <= MaxPending
  /\ ws' = "CLOSED"
  /\ lastEvent' = "ws:disconnected"
  /\ caughtUp' = FALSE
  /\ live' = FALSE
  /\ LET t == ScheduleReconnect(wsReconnectAttempts)
     IN /\ wsReconnectAttempts' = t.attempts
        /\ reconnectTimers' = reconnectTimers + t.reconnect
        /\ resetTimers' = resetTimers + t.reset
        /\ delay' = t.delay
  /\ UNCHANGED <<token, detached, orphans, syncStateVars, docVars, logVars, propagatorVars, localVars>>

\* ws.onerror
OnError ==
  /\ ws \in {"CONNECTING", "OPEN"} \/ detached > 0
  /\ lastEvent' = "ws:error"
  /\ UNCHANGED <<token, ws, detached, orphans, wsReconnectAttempts, reconnectTimers, resetTimers, delay,
                 caughtUp, live, syncStateVars, docVars, logVars, propagatorVars, localVars>>

\* reconnect(): the attempts are reset, disconnectWebSocket() and, with a token,
\* connectWebSocket() run.
Reconnect ==
  /\ wsReconnectAttempts' = 0
  /\ LET c == DisconnectWebSocket(ws)
         n == ConnectWebSocket(token, c.ws)
     IN /\ detached + c.dropped <= MaxPending
        /\ ws' = n.ws /\ detached' = detached + c.dropped
        /\ orphans' = [orphans EXCEPT !.connecting = @ + n.dropped]
  /\ caughtUp' = FALSE
  /\ live' = FALSE
  /\ UNCHANGED <<token, reconnectTimers, resetTimers, delay, lastEvent, syncStateVars,
                 docVars, logVars, propagatorVars, localVars>>

\* ws.onopen of a socket this.ws no longer refers to.
OnOpenDetached ==
  /\ orphans.connecting > 0
  /\ orphans' = [connecting |-> orphans.connecting - 1, open |-> orphans.open + 1]
  /\ wsReconnectAttempts' = 0
  /\ lastEvent' = "ws:connected"
  /\ UNCHANGED <<token, ws, detached, reconnectTimers, resetTimers, delay, caughtUp, live,
                 syncStateVars, docVars, logVars, propagatorVars, localVars>>

\* ws.onmessage of a socket this.ws no longer refers to.
OnMessageDetached ==
  \E type \in MessageTypes :
    /\ orphans.open > 0
    /\ lastEvent' = IF EventOf(type) = "none" THEN lastEvent ELSE EventOf(type)
    /\ UNCHANGED <<token, ws, detached, orphans, wsReconnectAttempts, reconnectTimers,
                   resetTimers, delay, caughtUp, live, syncStateVars, docVars, logVars,
                   propagatorVars, localVars>>

\* ws.onclose of a socket this.ws no longer refers to: one that was closed by
\* disconnectWebSocket(), or one left connecting or open.
OnCloseDetached ==
  /\ detached > 0
  /\ reconnectTimers + resetTimers + 1 <= MaxPending
  /\ detached' = detached - 1
  /\ \E kind \in {"closing", "connecting", "open"} :
       CASE kind = "closing" ->
              /\ detached > orphans.connecting + orphans.open
              /\ UNCHANGED orphans
         [] kind = "connecting" ->
              /\ orphans.connecting > 0
              /\ orphans' = [orphans EXCEPT !.connecting = @ - 1]
         [] OTHER ->
              /\ orphans.open > 0
              /\ orphans' = [orphans EXCEPT !.open = @ - 1]
  /\ lastEvent' = "ws:disconnected"
  /\ LET t == ScheduleReconnect(wsReconnectAttempts)
     IN /\ wsReconnectAttempts' = t.attempts
        /\ reconnectTimers' = reconnectTimers + t.reconnect
        /\ resetTimers' = resetTimers + t.reset
        /\ delay' = t.delay
  /\ UNCHANGED <<token, ws, caughtUp, live, syncStateVars, docVars, logVars, propagatorVars, localVars>>

\* The backoff timer of _scheduleReconnect fires.
ReconnectTimer ==
  /\ reconnectTimers > 0
  /\ reconnectTimers' = reconnectTimers - 1
  /\ LET c == ConnectWebSocket(token, ws)
     IN /\ detached + c.dropped <= MaxPending
        /\ ws' = c.ws /\ detached' = detached + c.dropped
        /\ orphans' = [orphans EXCEPT !.connecting = @ + c.dropped]
  /\ UNCHANGED <<token, wsReconnectAttempts, resetTimers, delay, lastEvent, caughtUp, live,
                 syncStateVars, docVars, logVars, propagatorVars, localVars>>

\* The 5-minute timer of _scheduleReconnect fires.
ResetTimer ==
  /\ resetTimers > 0
  /\ resetTimers' = resetTimers - 1
  /\ wsReconnectAttempts' = 0
  /\ LET c == ConnectWebSocket(token, ws)
     IN /\ detached + c.dropped <= MaxPending
        /\ ws' = c.ws /\ detached' = detached + c.dropped
        /\ orphans' = [orphans EXCEPT !.connecting = @ + c.dropped]
  /\ UNCHANGED <<token, reconnectTimers, delay, lastEvent, caughtUp, live, syncStateVars,
                 docVars, logVars, propagatorVars, localVars>>

\* Another device's change reaches the server.
ServerChange ==
  /\ serverTimestamp < MaxServerChanges
  /\ serverTimestamp' = serverTimestamp + 1
  /\ UNCHANGED <<token, ws, detached, orphans, wsReconnectAttempts, reconnectTimers, resetTimers, delay,
                 lastEvent, caughtUp, live, lastSync, inflight, batch, applied, docVars, logVars, propagatorVars, localVars>>

\* incrementalSync(changes), up to the request: LAST_SYNC is read and sent as
\* last_sync_at.
IncrementalSyncRequest ==
  /\ token
  /\ inflight = NoRequest
  /\ batch = << >>
  /\ inflight' = lastSync
  /\ UNCHANGED <<token, ws, detached, orphans, wsReconnectAttempts, reconnectTimers, resetTimers, delay,
                 lastEvent, caughtUp, live, serverTimestamp, lastSync, batch, applied,
                 docVars, logVars, propagatorVars, localVars>>

\* The changes after position c, in the server's order.
ChangesSince(c, upTo) == [n \in 1..(upTo - c) |-> c + n]

\* incrementalSync(changes), from the response on: data.server_timestamp is stored
\* as LAST_SYNC and data is returned to the caller.
IncrementalSyncResponse ==
  /\ inflight # NoRequest
  /\ token
  /\ lastSync' = serverTimestamp
  /\ batch' = ChangesSince(inflight, serverTimestamp)
  /\ inflight' = NoRequest
  /\ caughtUp' = (ws = "OPEN")
  /\ UNCHANGED live
  /\ UNCHANGED <<token, ws, detached, orphans, wsReconnectAttempts, reconnectTimers, resetTimers, delay,
                 lastEvent, serverTimestamp, applied, docVars, logVars, propagatorVars, localVars>>

\* The caller applies the next change incrementalSync returned.
ApplyChange ==
  /\ batch # << >>
  /\ applied[Head(batch)] < MaxApplied
  /\ applied' = [applied EXCEPT ![Head(batch)] = @ + 1]
  /\ batch' = Tail(batch)
  /\ UNCHANGED <<token, ws, detached, orphans, wsReconnectAttempts, reconnectTimers, resetTimers, delay,
                 lastEvent, caughtUp, live, serverTimestamp, lastSync, inflight, docVars, logVars, propagatorVars, localVars>>

\* The device goes away in mid-stream (the page is closed, the request fails):
\* what was in flight or returned but not applied is gone; chrome.storage stays.
Interrupt ==
  /\ inflight # NoRequest \/ batch # << >>
  /\ inflight' = NoRequest
  /\ batch' = << >>
  /\ UNCHANGED <<token, ws, detached, orphans, wsReconnectAttempts, reconnectTimers, resetTimers, delay,
                 lastEvent, caughtUp, live, serverTimestamp, lastSync, applied, docVars, logVars, propagatorVars, localVars>>

ClientNext ==
  \/ Login \/ Logout \/ OnOpen \/ OnMessage \/ OnError \/ OnClose \/ OnCloseDetached
  \/ OnOpenDetached \/ OnMessageDetached
  \/ Reconnect \/ ReconnectTimer \/ ResetTimer
  \/ ServerChange \/ IncrementalSyncRequest \/ IncrementalSyncResponse
  \/ ApplyChange \/ Interrupt

ClientSpec == Init /\ [][ClientNext]_vars

\* The connection alone, without the incremental sync.
ConnectionNext ==
  \/ Login \/ Logout \/ OnOpen \/ OnMessage \/ OnError \/ OnClose \/ OnCloseDetached
  \/ OnOpenDetached \/ OnMessageDetached
  \/ Reconnect \/ ReconnectTimer \/ ResetTimer

ConnectionSpec == Init /\ [][ConnectionNext]_vars

\* The timeouts set by _scheduleReconnect expire.
ConnectionFairSpec ==
  ConnectionSpec /\ WF_vars(ReconnectTimer) /\ WF_vars(ResetTimer)

\* ------------------------------------------------------------------------
\* The realtime propagator: fan-out over the Redis channel of the account
\* ------------------------------------------------------------------------

\* publishToUser(userId, message): Redis hands the message to the connections
\* subscribed to user:{id} at that moment, and keeps nothing for later.
PublishToUser(ch, sub, message) == IF sub THEN Append(ch, message) ELSE ch

\* The connection handler of the server unsubscribes whenever a connection closes.
SubscribedAfterCloseAlways(sub, remaining) == FALSE

\* The connection handler of the server calls unsubscribeFromUser(userId), which
\* ends the subscription of the whole account, once the account's last connection
\* has closed.
SubscribedAfterClose(sub, remaining) == IF remaining = {} THEN FALSE ELSE sub

\* A device connects: the handler calls subscribeToUser(userId, callback), with a
\* callback that sends the message on this connection.
DeviceConnect(d) ==
  /\ d \notin connected
  /\ listeners < MaxListeners
  /\ connected' = connected \cup {d}
  /\ subscribed' = TRUE
  /\ listeners' = listeners + 1
  /\ owed' = [owed EXCEPT ![d] = {}]
  /\ UNCHANGED <<accepted, channel, wire, delivered, queueVars, docVars, logVars, clientVars, localVars>>

\* The connection of a device closes: what was on the wire is lost, and the
\* listener stays on redisSub, bound to a closed connection.
DeviceDisconnect(d) ==
  /\ d \in connected
  /\ connected' = connected \ {d}
  /\ subscribed' = SubscribedAfterClose(subscribed, connected \ {d})
  /\ wire' = [wire EXCEPT ![d] = << >>]
  /\ owed' = [owed EXCEPT ![d] = {}]
  /\ UNCHANGED <<listeners, accepted, channel, delivered, queueVars, docVars, logVars,
                 clientVars, localVars>>

\* The server accepts an operation from device d and publishes it to the account.
Accept(d) ==
  /\ Len(accepted) < MaxOps
  /\ accepted' = Append(accepted, d)
  /\ channel' = PublishToUser(channel, subscribed, Len(accepted) + 1)
  /\ owed' = [e \in Replicas |-> IF e \in connected \ {d}
                                   THEN owed[e] \cup {Len(accepted) + 1} ELSE owed[e]]
  /\ UNCHANGED <<connected, subscribed, listeners, wire, delivered, queueVars, docVars,
                 logVars, clientVars, localVars>>

\* redisSub emits 'message': every listener whose connection is open, the
\* sender's apart, sends the operation on its connection.
Dispatch ==
  /\ channel # << >>
  /\ LET o == Head(channel)
     IN wire' = [d \in Replicas |-> IF d \in connected \ {accepted[o]}
                                      THEN Append(wire[d], o) ELSE wire[d]]
  /\ channel' = Tail(channel)
  /\ UNCHANGED <<connected, subscribed, listeners, accepted, delivered, owed, queueVars,
                 docVars, logVars, clientVars, localVars>>

\* The client of d handles the next message on its connection:
\* _handleWebSocketMessage dispatches the pushed operation.
Receive(d) ==
  /\ wire[d] # << >>
  /\ delivered' = [delivered EXCEPT ![d] = @ \cup {Head(wire[d])}]
  /\ wire' = [wire EXCEPT ![d] = Tail(@)]
  /\ UNCHANGED <<connected, subscribed, listeners, accepted, channel, owed, queueVars,
                 docVars, logVars, clientVars, localVars>>

FanoutNext ==
  \/ \E d \in Replicas : DeviceConnect(d)
  \/ \E d \in Replicas : DeviceDisconnect(d)
  \/ \E d \in Replicas : Accept(d)
  \/ Dispatch
  \/ \E d \in Replicas : Receive(d)

FanoutSpec == Init /\ [][FanoutNext]_vars

\* The event loop of the server runs the listeners of a message redisSub has
\* received, and a connection that stays open carries what was sent on it.
FanoutFairSpec ==
  FanoutSpec /\ WF_vars(Dispatch) /\ \A d \in Replicas : WF_vars(Receive(d))

\* ------------------------------------------------------------------------
\* The realtime propagator: the outbound queue of a device
\* ------------------------------------------------------------------------

\* The propagator buffers every operation, whatever the length of the queue.
OfferUnbounded(q, stopped, o) == [queue |-> Append(q, o), notifyOnly |-> stopped, signal |-> 0]

\* The propagator has operation o to deliver to a device whose queue is q: it is
\* buffered while the queue is below the bound; otherwise the propagator stops
\* buffering for the device and sends it a reconnect/catch-up notification.
Offer(q, stopped, o) ==
  IF ~stopped /\ Len(q) < QueueBound
    THEN [queue |-> Append(q, o), notifyOnly |-> FALSE, signal |-> 0]
    ELSE [queue |-> q, notifyOnly |-> TRUE, signal |-> 1]

\* An operation is queued for delivery to d.
Enqueue(d) ==
  \E o \in 1..MaxOps :
    LET r == Offer(queue[d], notifyOnly[d], o)
    IN /\ signals[d] + r.signal <= MaxSignals
       /\ queue' = [queue EXCEPT ![d] = r.queue]
       /\ notifyOnly' = [notifyOnly EXCEPT ![d] = r.notifyOnly]
       /\ signals' = [signals EXCEPT ![d] = @ + r.signal]
       /\ UNCHANGED <<fanVars, docVars, logVars, clientVars, localVars>>

\* The transport takes the next operation of the queue of d.
Transmit(d) ==
  /\ queue[d] # << >>
  /\ queue' = [queue EXCEPT ![d] = Tail(@)]
  /\ UNCHANGED <<notifyOnly, signals, fanVars, docVars, logVars, clientVars, localVars>>

\* d reconnects and catches up: the propagator buffers for it again.
Resume(d) ==
  /\ notifyOnly[d]
  /\ queue' = [queue EXCEPT ![d] = << >>]
  /\ notifyOnly' = [notifyOnly EXCEPT ![d] = FALSE]
  /\ UNCHANGED <<signals, fanVars, docVars, logVars, clientVars, localVars>>

QueueNext ==
  \/ \E d \in Replicas : Enqueue(d)
  \/ \E d \in Replicas : Transmit(d)
  \/ \E d \in Replicas : Resume(d)

QueueSpec == Init /\ [][QueueNext]_vars

\* ------------------------------------------------------------------------
\* Deferred deletion with undo (useBookmarkActions)
\* ------------------------------------------------------------------------

\* undoDelete(id), run on Map p and the pending timeouts ts: clearTimeout of the
\* entry's timeoutId, pendingDeletions.delete(id), and what it returns.
UndoDelete(p, ts, id) ==
  IF p[id] # NoTimeout
    THEN [ pending  |-> [p EXCEPT ![id] = NoTimeout],
           timeouts |-> { t \in ts : t.timeout # p[id] },
           returned |-> "bookmark" ]
    ELSE [pending |-> p, timeouts |-> ts, returned |-> "null"]

\* deleteBookmark(bookmark, undoDelay): the entry is set and the timeout started.
DoDeleteWithUndo ==
  \E i \in EditIds :
    /\ inBrowser[i]
    /\ nextTimeout <= MaxTimeouts
    /\ pendingDeletions' = [pendingDeletions EXCEPT ![i] = nextTimeout]
    /\ timeouts' = timeouts \cup {[timeout |-> nextTimeout, id |-> i]}
    /\ nextTimeout' = nextTimeout + 1
    /\ restored' = [restored EXCEPT ![i] = FALSE]
    /\ undone' = [undone EXCEPT ![i] = FALSE]
    /\ UNCHANGED <<removals, inBrowser, inBackend, initVars, redisVars, docVars, logVars, clientVars,
                   propagatorVars>>

\* The user takes the Undo action: undoDelete(id).
DoUndoDelete ==
  \E i \in EditIds :
    LET u == UndoDelete(pendingDeletions, timeouts, i)
    IN /\ pendingDeletions' = u.pending
       /\ timeouts' = u.timeouts
       /\ restored' = [restored EXCEPT ![i] = (u.returned = "bookmark")]
       /\ undone' = [undone EXCEPT ![i] =
                       /\ u.returned = "bookmark"
                       /\ \E t \in timeouts : t.timeout = pendingDeletions[i]]
       /\ UNCHANGED <<nextTimeout, removals, inBrowser, inBackend, initVars, redisVars, docVars,
                      logVars, clientVars, propagatorVars>>

\* A timeout of deleteBookmark fires: with an entry for the id in the Map, the
\* callback calls deleteBookmarkImmediately, which calls browser.bookmarks.remove.
TimeoutFires ==
  \E t \in timeouts :
    /\ timeouts' = timeouts \ {t}
    /\ removals' = IF pendingDeletions[t.id] # NoTimeout
                     THEN removals \cup {[id |-> t.id, timeout |-> t.timeout, at |-> "browser"]}
                     ELSE removals
    /\ UNCHANGED <<pendingDeletions, nextTimeout, inBrowser, inBackend, restored, undone,
                   initVars, redisVars, docVars, logVars, clientVars, propagatorVars>>

\* browser.bookmarks.remove(id) settles.  Rejected (always so when the browser
\* does not hold the bookmark): the catch runs undoDelete(id).  Fulfilled: with a
\* configured, authenticated backend backendClient.deleteBookmark(id) is called,
\* otherwise the callback goes on to pendingDeletions.delete(id).
BrowserRemoveSettles ==
  \E c \in removals : \E rejected, authenticated \in BOOLEAN :
    /\ c.at = "browser"
    /\ ~inBrowser[c.id] => rejected
    /\ IF rejected
         THEN LET u == UndoDelete(pendingDeletions, timeouts, c.id)
              IN /\ pendingDeletions' = u.pending
                 /\ timeouts' = u.timeouts
                 /\ restored' = [restored EXCEPT ![c.id] = @ \/ u.returned = "bookmark"]
                 /\ removals' = removals \ {c}
                 /\ UNCHANGED inBrowser
         ELSE /\ inBrowser' = [inBrowser EXCEPT ![c.id] = FALSE]
              /\ IF authenticated
                   THEN /\ removals' = (removals \ {c}) \cup {[c EXCEPT !.at = "backend"]}
                        /\ UNCHANGED pendingDeletions
                   ELSE /\ removals' = removals \ {c}
                        /\ pendingDeletions' = [pendingDeletions EXCEPT ![c.id] = NoTimeout]
              /\ UNCHANGED <<timeouts, restored>>
    /\ UNCHANGED <<nextTimeout, inBackend, undone, initVars, redisVars, docVars, logVars, clientVars,
                   propagatorVars>>

\* backendClient.deleteBookmark(id) settles; an error is logged and swallowed.
\* The callback goes on to pendingDeletions.delete(id).
BackendDeleteSettles ==
  \E c \in removals : \E failed \in BOOLEAN :
    /\ c.at = "backend"
    /\ inBackend' = [inBackend EXCEPT ![c.id] = IF failed THEN @ ELSE FALSE]
    /\ removals' = removals \ {c}
    /\ pendingDeletions' = [pendingDeletions EXCEPT ![c.id] = NoTimeout]
    /\ UNCHANGED <<timeouts, nextTimeout, inBrowser, restored, undone, initVars, redisVars, docVars,
                   logVars, clientVars, propagatorVars>>

DeleteNext ==
  DoDeleteWithUndo \/ DoUndoDelete \/ TimeoutFires \/ BrowserRemoveSettles
    \/ BackendDeleteSettles

DeleteSpec == Init /\ [][DeleteNext]_vars

\* ------------------------------------------------------------------------
\* The Automerge WASM loader (initAutomerge)
\* ------------------------------------------------------------------------

\* initAutomerge without the test of initPromise: every call before success
\* starts an import.
InitAutomergeAlone(initialized, promise, n) ==
  IF initialized THEN [awaits |-> 0, initPromise |-> promise, starts |-> FALSE]
  ELSE [awaits |-> n + 1, initPromise |-> n + 1, starts |-> TRUE]

\* initAutomerge(), called with wasmInitialized, initPromise and n attempts made
\* so far: the promise the caller gets (0: it returns at once), the new
\* initPromise, and whether an import() is started.
InitAutomerge(initialized, promise, n) ==
  IF initialized THEN [awaits |-> 0, initPromise |-> promise, starts |-> FALSE]
  ELSE IF promise # 0 THEN [awaits |-> promise, initPromise |-> promise, starts |-> FALSE]
  ELSE [awaits |-> n + 1, initPromise |-> n + 1, starts |-> TRUE]

\* Caller c calls initAutomerge().
CallInitAutomerge(c) ==
  LET r == InitAutomerge(wasmInitialized, initPromise, Len(attempts))
  IN /\ callers[c].at = "idle"
     /\ r.starts => Len(attempts) < MaxAttempts
     /\ initPromise' = r.initPromise
     /\ attempts' = IF r.starts THEN Append(attempts, "importing") ELSE attempts
     /\ callers' = [callers EXCEPT ![c] =
                      IF r.awaits = 0 THEN [at |-> "returned", promise |-> 0]
                      ELSE [at |-> "waiting", promise |-> r.awaits]]
     /\ UNCHANGED <<wasmInitialized, undoVars, redisVars, docVars, logVars, clientVars, propagatorVars>>

\* The import() of attempt k is fulfilled: wasmInitialized = true.
ImportFulfilled(k) ==
  /\ attempts[k] = "importing"
  /\ attempts' = [attempts EXCEPT ![k] = "fulfilled"]
  /\ wasmInitialized' = TRUE
  /\ UNCHANGED <<initPromise, callers, undoVars, redisVars, docVars, logVars, clientVars, propagatorVars>>

\* The import() of attempt k is rejected: the catch resets initPromise to null
\* and rethrows.
ImportRejected(k) ==
  /\ attempts[k] = "importing"
  /\ attempts' = [attempts EXCEPT ![k] = "rejected"]
  /\ initPromise' = 0
  /\ UNCHANGED <<wasmInitialized, callers, undoVars, redisVars, docVars, logVars, clientVars,
                 propagatorVars>>

\* The promise caller c awaits has settled: the call returns or throws.
CallSettles(c) ==
  /\ callers[c].at = "waiting"
  /\ attempts[callers[c].promise] # "importing"
  /\ callers' = [callers EXCEPT ![c].at =
                   IF attempts[callers[c].promise] = "fulfilled" THEN "returned" ELSE "threw"]
  /\ UNCHANGED <<wasmInitialized, initPromise, attempts, undoVars, redisVars, docVars, logVars,
                 clientVars, propagatorVars>>

\* Caller c is done with the outcome of its call.
CallEnds(c) ==
  /\ callers[c].at \in {"returned", "threw"}
  /\ callers' = [callers EXCEPT ![c] = [at |-> "idle", promise |-> 0]]
  /\ UNCHANGED <<wasmInitialized, initPromise, attempts, undoVars, redisVars, docVars, logVars,
                 clientVars, propagatorVars>>

LoaderNext ==
  \/ \E c \in Callers : CallInitAutomerge(c)
  \/ \E k \in 1..MaxAttempts : k <= Len(attempts) /\ ImportFulfilled(k)
  \/ \E k \in 1..MaxAttempts : k <= Len(attempts) /\ ImportRejected(k)
  \/ \E c \in Callers : CallSettles(c)
  \/ \E c \in Callers : CallEnds(c)

LoaderSpec == Init /\ [][LoaderNext]_vars

\* ------------------------------------------------------------------------
\* Redis pub/sub of the server (subscribeToUser, unsubscribeFromUser, publishToUser)
\* ------------------------------------------------------------------------

Users == {"u1", "u2"}

\* subscribeToUser(userId, callback) with a callback not passed before: the
\* channel is subscribed and a 'message' listener for it is added to redisSub.
SubscribeToUser(userId) ==
  /\ Len(redisListeners) < MaxSubscriptions
  /\ redisChannels' = redisChannels \cup {userId}
  /\ redisListeners' = Append(redisListeners, userId)
  /\ current' = current \cup {Len(redisListeners) + 1}
  /\ UNCHANGED <<invoked, lastPublished, undoVars, initVars, docVars, logVars, clientVars,
                 propagatorVars>>

\* unsubscribeFromUser(userId): the channel is unsubscribed.
UnsubscribeFromUser(userId) ==
  /\ redisChannels' = redisChannels \ {userId}
  /\ current' = { i \in current : redisListeners[i] # userId }
  /\ UNCHANGED <<redisListeners, invoked, lastPublished, undoVars, initVars, docVars, logVars,
                 clientVars, propagatorVars>>

\* publishToUser(userId, message): redisSub, when subscribed to the channel, emits
\* 'message' once, and every listener whose channel it is calls its callback.
DoPublishToUser(userId) ==
  /\ lastPublished' = userId
  /\ invoked' = [i \in 1..MaxSubscriptions |->
                  IF /\ userId \in redisChannels
                     /\ i <= Len(redisListeners)
                     /\ redisListeners[i] = userId
                    THEN 1 ELSE 0]
  /\ UNCHANGED <<redisChannels, redisListeners, current, undoVars, initVars, docVars, logVars,
                 clientVars, propagatorVars>>

RedisNext ==
  \/ \E u \in Users : SubscribeToUser(u)
  \/ \E u \in Users : UnsubscribeFromUser(u)
  \/ \E u \in Users : DoPublishToUser(u)

RedisSpec == Init /\ [][RedisNext]_vars

\* ------------------------------------------------------------------------
\* Properties of the replicated document
\* ------------------------------------------------------------------------

\* The writes to field k of the bookmark object o under key i that replica r has seen.
SeenWrites(r, i, o, k) ==
  { w \in writes[k] : w.id = i /\ w.obj = o /\ w.st \in seen[r] }

\* Two changes of different actors with the same counter: neither saw the other.
Concurrent(a, b) == a[1] = b[1] /\ a[2] # b[2]

Committed(r) == NextStamp(r) \in seen'[r] \ seen[r]

UpdateStep(r, i, c) ==
  /\ Present(doc[r].bookmarks[i])
  /\ Committed(r)
  /\ doc'[r] = UpdateBookmark(doc[r], i, c, NextStamp(r), now)

DeleteStep(r, i) ==
  /\ Present(doc[r].bookmarks[i])
  /\ Committed(r)
  /\ doc'[r] = DeleteBookmark(doc[r], i, NextStamp(r), now)

\* C3 (idempotence of apply): applying addBookmark, updateBookmark or
\* deleteBookmark with the same arguments a second time gives the document the
\* first application gave, tag counts included.
ApplyIdempotent ==
  \A r \in Replicas :
    LET d  == doc[r]
        s1 == NextStamp(r)
        s2 == <<s1[1] + 1, r>>
    IN /\ \A b \in NewBookmarks :
            View(AddBookmark(AddBookmark(d, b, s1, now), b, s2, now))
              = View(AddBookmark(d, b, s1, now))
       /\ \A i \in BookmarkIds, c \in ChangeSets :
            View(UpdateBookmark(UpdateBookmark(d, i, c, s1, now), i, c, s2, now))
              = View(UpdateBookmark(d, i, c, s1, now))
       /\ \A i \in BookmarkIds :
            View(DeleteBookmark(DeleteBookmark(d, i, s1, now), i, s2, now))
              = View(DeleteBookmark(d, i, s1, now))

\* C11 (commutativity of independent edits): two calls that target different
\* bookmarks, or different fields of the same bookmark, give the same document
\* when applied in either order to the same starting document (both orders
\* read the same clock).
IndependentEditsCommute ==
  \A r \in Replicas :
    LET d  == Extend(doc[r])
        s1 == NextStamp(r)
        s2 == <<s1[1] + 1, r>>
    IN \A a, b \in Edits :
         Independent(a, b) =>
           View(ApplyEdit(ApplyEdit(d, a, s1, now), b, s2, now))
             = View(ApplyEdit(ApplyEdit(d, b, s1, now), a, s2, now))

\* The changes replica r has seen that wrote the tag list of bookmark object o.
SeenTagOps(r, i, o) ==
  { p \in tagOps : p.id = i /\ p.obj = o /\ p.st \in seen[r] }

\* C5 (add-wins tags): on every replica, the tag list of a bookmark contains each
\* element that some change the replica has seen added to it, unless a change
\* that removed the element carries a logical timestamp later than every add of
\* it.
AddWinsTags ==
  \A r \in Replicas, i \in BookmarkIds, e \in TagNames :
    Present(doc[r].bookmarks[i]) =>
      LET Ops     == SeenTagOps(r, i, doc[r].bookmarks[i].obj)
          Adds    == { p \in Ops : e \in p.added }
          Removes == { p \in Ops : e \in p.removed }
      IN (/\ Adds # {}
          /\ ~ \E u \in Removes : \A a \in Adds : Later(u.st, a.st))
           => e \in Elems(doc[r].bookmarks[i].f.tags.v)

\* C6 (tombstone retention): no step removes a bookmark record from a document;
\* deleteBookmark of an existing bookmark leaves it in bookmarks with
\* deleted = true and deletedAt set, records a copy under deletedBookmarks and
\* keeps every other field; and a replica that has merged a delete with a notes
\* edit of an earlier timestamp shows deleted = true with the edited notes.
TombstoneRetention ==
  /\ [][\A r \in Replicas, i \in BookmarkIds :
          /\ Present(doc[r].bookmarks[i]) => Present(doc'[r].bookmarks[i])
          /\ DeleteStep(r, i) =>
               LET f == doc[r].bookmarks[i].f
                   g == doc'[r].bookmarks[i].f
               IN /\ doc'[r].bookmarks[i].obj = doc[r].bookmarks[i].obj
                  /\ g.deleted.v = TRUE
                  /\ g.deletedAt.v = now /\ g.deletedAt.v # NoTime
                  /\ Present(doc'[r].deletedBookmarks[i])
                  /\ doc'[r].deletedBookmarks[i].rec = Copy(g)
                  /\ \A k \in BookmarkFields \ {"deleted", "deletedAt"} : g[k] = f[k]
       ]_vars
  /\ [](\A r \in Replicas, i \in BookmarkIds :
          Present(doc[r].bookmarks[i]) =>
            LET o == doc[r].bookmarks[i].obj
                D == SeenWrites(r, i, o, "deleted")
                N == SeenWrites(r, i, o, "notes")
            IN \A d \in D, n \in N :
                 (/\ d.v = TRUE /\ n.st # o /\ Later(d.st, n.st)
                  /\ \A u \in D : ~Later(u.st, d.st)
                  /\ \A u \in N : ~Later(u.st, n.st))
                   => /\ doc[r].bookmarks[i].f.deleted.v = TRUE
                      /\ doc[r].bookmarks[i].f.notes.v = n.v)

\* A replica holds the tombstone of a bookmark whose notes were edited by the
\* other device, concurrently with the delete and with the earlier timestamp.
TombstoneRetentionWitness ==
  \E r \in Replicas, i \in BookmarkIds :
    /\ Present(doc[r].bookmarks[i])
    /\ doc[r].bookmarks[i].f.deleted.v = TRUE
    /\ doc[r].bookmarks[i].f.notes.v = "keep"
    /\ Present(doc[r].deletedBookmarks[i])
    /\ \E d \in SeenWrites(r, i, doc[r].bookmarks[i].obj, "deleted") :
       \E n \in SeenWrites(r, i, doc[r].bookmarks[i].obj, "notes") :
         d.v = TRUE /\ n.v = "keep" /\ Concurrent(d.st, n.st) /\ Later(d.st, n.st)

\* The content edits (writes of title, notes or tags by updateBookmark) of
\* bookmark object o that replica r has seen.
SeenEdits(r, i, o) ==
  { w \in SeenWrites(r, i, o, "title") \cup SeenWrites(r, i, o, "notes") : w.st # o }
    \cup { [st |-> p.st] : p \in { q \in SeenTagOps(r, i, o) : q.st # o } }

References(d, t) ==
  Cardinality({ i \in BookmarkIds : /\ Present(d.bookmarks[i])
                                    /\ ~d.bookmarks[i].f.deleted.v
                                    /\ t \in Elems(d.bookmarks[i].f.tags.v) })

\* C8 (tag counts are exact): on a replica that has only run its own
\* addBookmark, updateBookmark and deleteBookmark, the stored count of every tag
\* equals the number of non-deleted bookmarks whose tag list contains the tag.
TagCountsExact ==
  \A r \in Replicas :
    (\A s \in seen[r] : s[2] = r) =>
      \A t \in TagNames : ViewTag(doc[r].tags[t]) = References(doc[r], t)

\* C9 (tag counts never negative): in every document, every stored tag count
\* is >= 0.
TagCountsNonNegative ==
  \A r \in Replicas, t \in TagNames :
    Present(doc[r].tags[t]) => doc[r].tags[t].count.v >= 0

\* A replica has seen two deletes of the same bookmark, whose tag has count 0.
TagCountsNonNegativeWitness ==
  \E r \in Replicas, i \in BookmarkIds, t \in TagNames :
    /\ Present(doc[r].bookmarks[i])
    /\ t \in Elems(doc[r].bookmarks[i].f.tags.v)
    /\ Present(doc[r].tags[t]) /\ doc[r].tags[t].count.v = 0
    /\ Cardinality({ w \in SeenWrites(r, i, doc[r].bookmarks[i].obj, "deleted") :
                       w.v = TRUE }) >= 2

\* C10 (immutable id): every record stored under key k of bookmarks has id = k.
IdImmutable ==
  \A r \in Replicas, i \in BookmarkIds :
    Present(doc[r].bookmarks[i]) => doc[r].bookmarks[i].f.id.v = i

\* ------------------------------------------------------------------------
\* Properties of the operation log
\* ------------------------------------------------------------------------

\* C4 (duplicate append): appending an operation whose hash the log already
\* holds returns Duplicate, which is a success, and leaves the log unchanged; and
\* no two rows of the log share an operation_hash.
DuplicateIsNoOp ==
  /\ [][\A op \in Operations :
          (/\ result' # result /\ result'.op = op
           /\ \E n \in 1..Len(log) : log[n].operation_hash = Hash(op.data))
            => /\ result'.outcome = "Duplicate"
               /\ result'.ok
               /\ log' = log
       ]_vars
  /\ [](\A m, n \in 1..Len(log) :
          log[m].operation_hash = log[n].operation_hash => m = n)

\* The log holds an operation and the append of an operation with the same hash
\* has just returned Duplicate.
DuplicateIsNoOpWitness ==
  /\ result.outcome = "Duplicate"
  /\ \E n \in 1..Len(log) : log[n].operation_hash = Hash(result.op.data)
  /\ Len(log) >= 2

\* C12 (sequence numbers): no two rows of the log share (device_id,
\* sequence_number), and each accepted row carries the sequence number one more
\* than the row its device had accepted before it (1 for the device's first).
SequenceNumbersGapFree ==
  /\ \A m, n \in 1..Len(log) :
       (/\ log[m].device_id = log[n].device_id
        /\ log[m].sequence_number = log[n].sequence_number) => m = n
  /\ \A n \in 1..Len(log) :
       log[n].sequence_number = LastSeq(SubSeq(log, 1, n - 1), log[n].device_id) + 1

\* The step submits operation op, whose sequence number skips ahead of the last
\* one accepted from its device.
GapStep(op) ==
  result' # result /\ result'.op = op /\ op.seq > LastSeq(log, op.actor) + 1

TotalOrder ==
  /\ [][log' # log =>
          /\ result'.outcome = "Accepted"
          /\ Len(log') = Len(log) + 1
          /\ SubSeq(log', 1, Len(log)) = log
          /\ log'[Len(log')].operation_data = result'.op.data
          /\ \A n \in 1..Len(log) : log[n].id < log'[Len(log')].id
       ]_vars
  /\ [](\A m, n \in 1..Len(log) : m < n => log[m].id < log[n].id)
  /\ [](\A c \in 0..Len(log) :
          LET ops == OperationsSince(log, c)
          IN /\ ops = SubSeq(log, Len(log) - Len(ops) + 1, Len(log))
             /\ \A n \in 1..Len(log) : log[n].id > c <=> n > Len(log) - Len(ops))

\* The log holds operations of both devices, accepted in an order that is not
\* the order of their sequence numbers.
TotalOrderWitness ==
  \E m, n \in 1..Len(log) :
    /\ m < n
    /\ log[m].device_id # log[n].device_id
    /\ log[m].sequence_number > log[n].sequence_number
    /\ Len(OperationsSince(log, log[m].id)) >= 1

Pending == { batch[k] : k \in 1..Len(batch) }

\* No change the cursor (LAST_SYNC) has passed is left unapplied, unless the device
\* still holds it to apply.
NoChangeSkipped ==
  \A c \in 1..MaxServerChanges : (c <= lastSync /\ c \notin Pending) => applied[c] >= 1

\* C14: catch-up is resumable. Every server change the device's cursor (LAST_SYNC)
\* has passed, and that the device does not still hold to apply, has been applied,
\* and no change has been applied more than once: a device that went away after
\* applying k of n changes gets exactly the other n - k on its next sync.
ResumableCatchUp ==
  /\ NoChangeSkipped
  /\ \A c \in 1..MaxServerChanges : applied[c] <= 1

\* The phase of the connection, read off the client's state: the socket is being
\* set up (Handshaking), is open and has dispatched no pushed change yet
\* (CatchingUp), or is open and has dispatched pushed changes (Live).
ConnState ==
  CASE ws \in {"null", "CLOSED"} -> "Disconnected"
    [] ws = "CONNECTING" -> "Handshaking"
    [] ws = "OPEN" /\ ~live -> "CatchingUp"
    [] OTHER -> "Live"

\* The moves of the protocol. reconnect() drops the connection and sets up the
\* next one in one step: from an open connection to Handshaking, by way of
\* Disconnected.
LegalMoves ==
  { <<"Disconnected", "Handshaking">>, <<"Handshaking", "CatchingUp">>,
    <<"CatchingUp", "Live">>, <<"Handshaking", "Disconnected">>,
    <<"CatchingUp", "Disconnected">>, <<"Live", "Disconnected">>,
    <<"CatchingUp", "Handshaking">>, <<"Live", "Handshaking">> }

\* The phases follow one another in the order of the protocol.
PhaseOrder == [][ConnState' # ConnState => <<ConnState, ConnState'>> \in LegalMoves]_vars

\* C15: the connection moves Disconnected -> Handshaking -> CatchingUp -> Live, or
\* from any phase to Disconnected, and it is Live only after a catch-up has
\* completed on it.
ConnectionStateMachine ==
  /\ PhaseOrder
  /\ [](ConnState = "Live" => caughtUp)

BoundedOutboundQueue ==
  /\ [](\A d \in Replicas : Len(queue[d]) <= QueueBound)
  /\ [][\A d \in Replicas :
          (Len(queue[d]) = QueueBound /\ (signals'[d] # signals[d] \/ Len(queue'[d]) > Len(queue[d])))
            => /\ queue'[d] = queue[d]
               /\ notifyOnly'[d]
               /\ signals'[d] = signals[d] + 1]_vars

\* A device whose queue is full has been sent a notification in place of an operation.
BoundedOutboundQueueWitness ==
  \E d \in Replicas : Len(queue[d]) = QueueBound /\ notifyOnly[d] /\ signals[d] > 0

\* C21: malformed operations are rejected whole. A submission whose payload fails
\* structural validation leaves the log, the snapshots, every document and every
\* cursor as they were, and the rejection is the answer to the submitting device;
\* no row of the log holds a malformed payload.
MalformedRejected ==
  /\ [][\A op \in Submissions :
          (result' # result /\ result'.op = op /\ ~WellFormed(op.data))
            => /\ log' = log /\ snapshots' = snapshots /\ cursor' = cursor /\ doc' = doc
               /\ result'.outcome = "MalformedOperation" /\ ~result'.ok]_vars
  /\ [](\A n \in 1..Len(log) : WellFormed(log[n].operation_data))

\* A malformed operation has been rejected by a log that holds operations.
MalformedRejectedWitness ==
  /\ result.outcome = "MalformedOperation"
  /\ log # << >>
  /\ \E a \in Replicas : cursor[a] > 0

\* C22: unknown targets are no-ops. In every document a device can hold,
\* updateBookmark, deleteBookmark and moveBookmark of a bookmark id the document
\* does not hold, and renameFolder of a folder id it does not hold, return the
\* document they were given.
UnknownTargetNoOp ==
  \A r \in Replicas :
    LET d  == Extend(doc[r])
        st == NextStamp(r)
    IN /\ \A i \in EditIds :
            ~Present(d.bookmarks[i]) =>
              /\ \A c \in ChangeSets : UpdateBookmark(d, i, c, st, now) = d
              /\ DeleteBookmark(d, i, st, now) = d
              /\ \A g \in Targets : MoveBookmark(d, i, g[1], g[2], st, now) = d
       /\ \A g \in FolderIds \cup {"f2"} : \A title \in FolderTitles :
            (g \notin FolderIds \/ ~Present(folders[r][g])) =>
              RenameFolder(folders[r], g, title, st, now) = folders[r]

\* A document that holds a bookmark and a folder, and lacks another of each.
UnknownTargetNoOpWitness ==
  \E r \in Replicas :
    /\ Present(doc[r].bookmarks["b1"])
    /\ Present(folders[r]["f1"])
    /\ ~Present(Extend(doc[r]).bookmarks["b2"])

\* A removal of bookmark i has started and not yet ended.
Removing(i) == \E c \in removals : c.id = i

\* A bookmark whose deletion was undone before the timeout of its entry fired is
\* not removed, from the browser or from the backend.
UndoneNeverRemoved ==
  \A i \in EditIds : undone[i] => inBrowser[i] /\ inBackend[i] /\ ~Removing(i)

\* A removal starts when the timeout of the entry in the Map fires, and when it
\* ends the id has left the Map.
RemovalAtTimeout ==
  [][/\ \A c \in removals' \ removals :
          c.at = "browser" => c.timeout = pendingDeletions[c.id]
     /\ \A c \in removals \ removals' :
          (\A e \in removals' : e.id # c.id \/ e.timeout # c.timeout)
            => pendingDeletions'[c.id] = NoTimeout]_vars

\* C23: deferred delete with undo. After deleteBookmark(bookmark, delay), an
\* undoDelete(id) before the delay elapses keeps the bookmark in the browser and
\* the backend; without it the removal runs when the delay elapses, and the id
\* then leaves the pending set.
DeferredDelete == UndoneNeverRemoved /\ RemovalAtTimeout

\* C28: undo is truthful. A bookmark that undoDelete has reported restored is in
\* the browser and no removal of it is running.
UndoTruthful ==
  \A i \in EditIds : restored[i] => inBrowser[i] /\ ~Removing(i)

\* The attempts whose import() has not settled.
Importing == { k \in 1..Len(attempts) : attempts[k] = "importing" }

\* C26: single WASM initialization. At most one import() is in progress and at
\* most one is ever fulfilled; none is started while one is in progress or after
\* one was fulfilled; a call made while an import is in progress waits on the
\* promise of that import; a call after success returns at once; and after a rejected import
\* the next call starts a new one.
SingleInitialization ==
  /\ [](/\ Cardinality(Importing) <= 1
        /\ Cardinality({ k \in 1..Len(attempts) : attempts[k] = "fulfilled" }) <= 1
        /\ \A k \in Importing : initPromise = k)
  /\ [][/\ Len(attempts') > Len(attempts) => (~wasmInitialized /\ Importing = {})
        /\ \A c \in Callers :
             (callers[c].at = "idle" /\ callers'[c].at # "idle")
               => /\ wasmInitialized => callers'[c].at = "returned"
                  /\ (~wasmInitialized /\ Importing # {})
                       => (callers'[c].at = "waiting" /\ callers'[c].promise \in Importing)
                  /\ (~wasmInitialized /\ Importing = {})
                       => (Len(attempts') = Len(attempts) + 1
                           /\ callers'[c].promise = Len(attempts'))]_vars

\* After a rejected import a second attempt is in progress, and both callers
\* wait on its promise.
SingleInitializationWitness ==
  /\ Len(attempts) = 2
  /\ attempts[1] = "rejected"
  /\ attempts[2] = "importing"
  /\ \A c \in Callers : callers[c] = [at |-> "waiting", promise |-> 2]

\* The sockets that are connecting or open with the client's handlers attached.
LiveSockets ==
  (IF ws \in {"CONNECTING", "OPEN"} THEN 1 ELSE 0) + orphans.connecting + orphans.open

\* A step in which new WebSocket(wsUrl) runs.
NewSocket == ws' = "CONNECTING" /\ (ws # "CONNECTING" \/ detached' > detached)

\* C24: reconnect never gives up. With a token, a closed connection is always
\* followed by another connection attempt; the five-minute timeout is set when the
\* attempts are used up, and when it expires the counter is 0 and, with a token,
\* the client connects.
NeverGivesUp ==
  /\ (token /\ ws = "CLOSED") ~> (~token \/ ws \in {"CONNECTING", "OPEN"})
  /\ [][/\ resetTimers' > resetTimers
             => (wsReconnectAttempts = maxReconnectAttempts /\ delay' = LongDelay)
        /\ resetTimers' < resetTimers
             => (wsReconnectAttempts' = 0 /\ (token => ws' \in {"CONNECTING", "OPEN"}))]_vars

\* The five-minute timeout has expired: the counter is 0 and the client connects.
NeverGivesUpWitness ==
  /\ token /\ ws = "CONNECTING"
  /\ delay = LongDelay /\ resetTimers = 0
  /\ wsReconnectAttempts = 0
  /\ detached = 0

\* The backoff delays (ms) by the attempts made before.
Backoff == <<1000, 2000, 4000, 8000, 16000>>

\* C25: reconnect counter bounds. wsReconnectAttempts stays within
\* 0..maxReconnectAttempts; it is 0 after a socket opens and after reconnect(); and
\* a retry is scheduled with the delay min(reconnectDelay * 2^attempts, 30000) of
\* the attempts counted before the increment.
ReconnectCounterBounds ==
  /\ [](wsReconnectAttempts \in 0..maxReconnectAttempts)
  /\ [][/\ ((ws # "OPEN" /\ ws' = "OPEN") \/ orphans'.open > orphans.open)
             => wsReconnectAttempts' = 0
        /\ (NewSocket /\ token /\ token' /\ reconnectTimers' = reconnectTimers
                      /\ resetTimers' = resetTimers)
             => wsReconnectAttempts' = 0
        /\ reconnectTimers' > reconnectTimers
             => /\ wsReconnectAttempts' = wsReconnectAttempts + 1
                /\ delay' = Backoff[wsReconnectAttempts + 1]
                /\ delay' <= MaxDelay]_vars

\* The last retry before the limit has been scheduled, 16 s ahead.
ReconnectCounterBoundsWitness ==
  /\ wsReconnectAttempts = maxReconnectAttempts
  /\ reconnectTimers = 1
  /\ delay = Backoff[maxReconnectAttempts]

\* C27: at most one live socket. The client never has two sockets that are
\* connecting or open with its handlers attached.
AtMostOneLiveSocket == LiveSockets <= 1

SubscriptionCallbacks ==
  [][<<invoked, lastPublished>>' # <<invoked, lastPublished>>
       => \A i \in 1..MaxSubscriptions :
            invoked'[i] = IF i \in current /\ redisListeners[i] = lastPublished'
                            THEN 1 ELSE 0]_vars

====
